---------------------------- MODULE Spec2Model ----------------------------
(***************************************************************************)
(* A model of Sheet2API (src/main.py): a FastAPI gateway that serves the   *)
(* rows of a Google spreadsheet as records, behind an API key and a        *)
(* TTL cache.                                                              *)
(*                                                                         *)
(* Text that comes from outside (sheet ids, worksheet names, cells, sort   *)
(* specs, queries) is a sequence of one-character strings, so that strip,  *)
(* lower, split, substring search and comparison are computed character   *)
(* by character.  Fixed message texts of the program are TLA+ strings.     *)
(* An Optional value is <<>> (None) or <<v>>.                              *)
(***************************************************************************)
EXTENDS Naturals, Sequences, FiniteSets, TLC

VARIABLES
    now,      \* the clock the cache reads, in seconds
    cache,    \* TTLCache: key -> [value, expires, by]
    pending,  \* requests received and waiting for the event loop
    busy,     \* <<>> or <<request>>: the handler suspended in the fetch
    resp,     \* <<>> or <<response>>: what the last step sent, with its trace
    prev,     \* <<>> or <<last successful fetched answer of get_sheet_data>>
    env,      \* the process environment: API_KEY, GOOGLE_CREDENTIALS_FILE
    arg,      \* a single call's input  (specifications of one function)
    ret,      \* a single call's result (specifications of one function)
    pc        \* "idle" | "call" | "done"

vars == <<now, cache, pending, busy, resp, prev, env, arg, ret, pc>>

----------------------------------------------------------------------------
(* Text *)

None == <<>>

Some(v) == <<v>>

\* The printable ASCII characters in code-point order, from 32 (space); the
\* grave accent, which a TLA+ string cannot hold, is written GRAVE.
Ascii ==
    << " ", "!", "\"", "#", "$", "%", "&", "'", "(", ")", "*", "+", ",", "-",
       ".", "/", "0", "1", "2", "3", "4", "5", "6", "7", "8", "9", ":", ";",
       "<", "=", ">", "?", "@", "A", "B", "C", "D", "E", "F", "G", "H", "I",
       "J", "K", "L", "M", "N", "O", "P", "Q", "R", "S", "T", "U", "V", "W",
       "X", "Y", "Z", "[", "\\", "]", "^", "_", "GRAVE", "a", "b", "c", "d", "e",
       "f", "g", "h", "i", "j", "k", "l", "m", "n", "o", "p", "q", "r", "s",
       "t", "u", "v", "w", "x", "y", "z", "{", "|", "}", "~" >>

FirstCodePoint == 32

UpperA == 65

UpperZ == 90

CaseOffset == 32

\* ord(c)
ord(c) == IF c = "\t" THEN 9
          ELSE (CHOOSE i \in 1..Len(Ascii) : Ascii[i] = c) + FirstCodePoint - 1

\* chr(n), for a printable n
chr(n) == Ascii[n - FirstCodePoint + 1]

\* str.lower() on one character
lower_char(c) ==
    IF ord(c) >= UpperA /\ ord(c) <= UpperZ THEN chr(ord(c) + CaseOffset) ELSE c

\* str.lower()
lower(s) == [i \in 1..Len(s) |-> lower_char(s[i])]

\* The characters str.strip() removes.
IsSpace(c) == c \in {" ", "\t"}

Drop(n, s) == IF n >= Len(s) THEN <<>> ELSE SubSeq(s, n + 1, Len(s))

Take(n, s) == IF n >= Len(s) THEN s ELSE SubSeq(s, 1, n)

RECURSIVE lstrip(_)
lstrip(s) == IF s # <<>> /\ IsSpace(s[1]) THEN lstrip(Tail(s)) ELSE s

RECURSIVE rstrip(_)
rstrip(s) ==
    IF s # <<>> /\ IsSpace(s[Len(s)]) THEN rstrip(SubSeq(s, 1, Len(s) - 1)) ELSE s

\* str.strip()
strip(s) == rstrip(lstrip(s))

\* Python's < on str: by code point, a proper prefix first.
RECURSIVE str_lt(_, _)
str_lt(a, b) ==
    IF b = <<>> THEN FALSE
    ELSE IF a = <<>> THEN TRUE
    ELSE IF a[1] # b[1] THEN ord(a[1]) < ord(b[1])
    ELSE str_lt(Tail(a), Tail(b))

\* q in text
contains(hay, q) ==
    \E i \in 0..Len(hay) :
        /\ i + Len(q) <= Len(hay)
        /\ \A j \in 1..Len(q) : hay[i + j] = q[j]

\* sep.join(parts)
RECURSIVE join(_, _)
join(sep, parts) ==
    IF parts = <<>> THEN <<>>
    ELSE IF Len(parts) = 1 THEN parts[1]
    ELSE parts[1] \o sep \o join(sep, Tail(parts))

\* s.split(":")
RECURSIVE split_colon(_)
split_colon(s) ==
    IF \A i \in 1..Len(s) : s[i] # ":" THEN <<s>>
    ELSE LET k == CHOOSE i \in 1..Len(s) :
                      s[i] = ":" /\ \A j \in 1..(i - 1) : s[j] # ":"
         IN  <<Take(k - 1, s)>> \o split_colon(Drop(k, s))

Base == 10

\* str(n) for an int n >= 0
RECURSIVE int_str(_)
int_str(n) ==
    IF n < Base THEN <<chr(ord("0") + n)>>
    ELSE int_str(n \div Base) \o <<chr(ord("0") + (n % Base))>>

\* f"{x}" for an Optional[str]
fmt_str(x) == IF x = None THEN <<"N", "o", "n", "e">> ELSE x[1]

\* f"{x}" for an Optional[int]
fmt_int(x) == IF x = None THEN <<"N", "o", "n", "e">> ELSE int_str(x[1])

\* The text of a character sequence, to embed in a message.
RECURSIVE text(_)
text(s) == IF s = <<>> THEN "" ELSE s[1] \o text(Tail(s))

----------------------------------------------------------------------------
(* Exceptions and results *)

HTTPException(status_code, detail) ==
    [cls |-> "HTTPException", status_code |-> status_code, detail |-> detail]

\* Any exception that is not an HTTPException (gspread's, ValueError, ...).
OtherException(msg) == [cls |-> "Exception", status_code |-> 0, detail |-> msg]

StatusText(n) == text(int_str(n))

\* str(e): HTTPException prints as "<status_code>: <detail>".
str_exc(e) ==
    IF e.cls = "HTTPException" THEN StatusText(e.status_code) \o ": " \o e.detail
    ELSE e.detail

Return(v) == [ok |-> TRUE, val |-> v]

Raise(e) == [ok |-> FALSE, exc |-> e]

----------------------------------------------------------------------------
(* Records: a dict in insertion order, as a sequence of <<key, value>>. *)

Keys(d) == {d[i][1] : i \in 1..Len(d)}

HasKey(d, k) == \E i \in 1..Len(d) : d[i][1] = k

\* d.get(k, "")
dict_get(d, k) ==
    IF HasKey(d, k) THEN d[CHOOSE i \in 1..Len(d) : d[i][1] = k][2] ELSE <<>>

\* d[k] = v: a present key keeps its place and takes the new value.
dict_set(d, k, v) ==
    IF HasKey(d, k)
    THEN [i \in 1..Len(d) |-> IF d[i][1] = k THEN <<k, v>> ELSE d[i]]
    ELSE Append(d, <<k, v>>)

\* list(d.values())
dict_values(d) == [i \in 1..Len(d) |-> d[i][2]]

----------------------------------------------------------------------------
(* Record Normalizer: clean_worksheet_data *)

\* A worksheet object is [values |-> what get_all_values() does]: Return(grid)
\* or Raise(e).
Worksheet(values) == [values |-> values]

\* headers = [h.strip() for h in all_values[0] if h.strip()]
headers_of(row0) ==
    LET NonEmpty(h) == strip(h) # <<>>
        kept == SelectSeq(row0, NonEmpty)
    IN  [i \in 1..Len(kept) |-> strip(kept[i])]

\* The loop body without the slice's copy: extend() grows the caller's list.
trim_and_pad_in_place(row, n) ==
    LET sliced == Take(n, row)
        padded == sliced \o [i \in 1..(n - Len(sliced)) |-> <<>>]
    IN  [row |-> padded, source |-> IF Len(row) < n THEN padded ELSE row]

\* row = row[:len(headers)]; row.extend([''] * (len(headers) - len(row))).
\* The slice is a new list: `row` names it from then on, and the list that
\* all_values holds (source) is not the one extend() grows.
trim_and_pad(row, n) ==
    LET sliced == Take(n, row)
    IN  [row    |-> sliced \o [i \in 1..(n - Len(sliced)) |-> <<>>],
         source |-> row]

\* {headers[i]: row[i] for i in range(len(headers))}, built up to index n
RECURSIVE make_record(_, _, _)
make_record(headers, row, n) ==
    IF n = 0 THEN <<>>
    ELSE dict_set(make_record(headers, row, n - 1), headers[n], row[n])

\* The records list that the loop over all_values[1:] builds.
records_of(all_values, headers) ==
    [r \in 1..(Len(all_values) - 1) |->
        make_record(headers,
                    trim_and_pad(all_values[r + 1], Len(headers)).row,
                    Len(headers))]

InternalError == 500

clean_worksheet_data(worksheet_obj) ==
    LET got == worksheet_obj.values
    IN  IF ~got.ok
        THEN Raise(HTTPException(InternalError,
                 "Error processing worksheet data: " \o str_exc(got.exc)))
        ELSE IF got.val = <<>> THEN Return(<<>>)
        ELSE IF headers_of(got.val[1]) = <<>> THEN Return(<<>>)
        ELSE Return(records_of(got.val, headers_of(got.val[1])))

\* The list get_all_values() returned, as it is once clean_worksheet_data is
\* through with it.
all_values_after(all_values) ==
    IF all_values = <<>> \/ headers_of(all_values[1]) = <<>> THEN all_values
    ELSE [r \in 1..Len(all_values) |->
            IF r = 1 THEN all_values[1]
            ELSE trim_and_pad(all_values[r],
                              Len(headers_of(all_values[1]))).source]

----------------------------------------------------------------------------
(* Response Cache: cachetools.TTLCache(maxsize=100, ttl=300) *)

maxsize == 100

ttl == 300

\* key in cache: an entry past its expiry is not seen.  The clock does not
\* move inside a handler step, so the lookup and the read that follows it
\* (cache[cache_key]) see the same entries.
cache_contains(c, key, t) == key \in DOMAIN c /\ t < c[key].expires

\* The entries left once the expired ones are dropped.
cache_expire(c, t) ==
    LET live == {k \in DOMAIN c : t < c[k].expires}
    IN  [k \in live |-> c[k]]

\* The entry capacity eviction removes: the one inserted longest ago.
cache_oldest(c) == CHOOSE k \in DOMAIN c : \A j \in DOMAIN c : c[k].expires <= c[j].expires

\* cache[key] = value at time t.  `by` records whose answer the entry holds.
cache_set(c, key, value, t, by) ==
    LET live  == cache_expire(c, t)
        room  == IF key \notin DOMAIN live /\ Cardinality(DOMAIN live) >= maxsize
                 THEN [k \in DOMAIN live \ {cache_oldest(live)} |-> live[k]]
                 ELSE live
        entry == [value |-> value, expires |-> t + ttl, by |-> by]
    IN  [k \in DOMAIN room \cup {key} |-> IF k = key THEN entry ELSE room[k]]

----------------------------------------------------------------------------
(* Query Processor: sort and pagination of get_sheet_data *)

Reverse(s) == [i \in 1..Len(s) |-> s[Len(s) + 1 - i]]

\* key=lambda x: str(x.get(field, ""))
sort_key(record, field) == dict_get(record, field)

\* A stable ascending sort: each record goes behind those not greater.
RECURSIVE sorted_asc(_, _)
sorted_asc(records, field) ==
    IF records = <<>> THEN <<>>
    ELSE LET rest == sorted_asc(SubSeq(records, 1, Len(records) - 1), field)
             x    == records[Len(records)]
             p    == Cardinality({i \in 1..Len(rest) :
                        ~str_lt(sort_key(x, field), sort_key(rest[i], field))})
         IN  Take(p, rest) \o <<x>> \o Drop(p, rest)

\* sorted(records, key=..., reverse=reverse): reverse=True sorts the reversed
\* list and reverses the result, so equal keys keep their order.
sorted(records, field, reverse) ==
    IF reverse THEN Reverse(sorted_asc(Reverse(records), field))
    ELSE sorted_asc(records, field)

\* if sort: field, direction = sort.split(":") if ":" in sort else (sort, "asc")
apply_sort(records, sort) ==
    IF sort = None \/ sort[1] = <<>> THEN Return(records)
    ELSE LET parts == IF \E i \in 1..Len(sort[1]) : sort[1][i] = ":"
                      THEN split_colon(sort[1])
                      ELSE <<sort[1], <<"a", "s", "c">> >>
         IN  IF Len(parts) # 2
             THEN Raise(OtherException("too many values to unpack (expected 2)"))
             ELSE Return(sorted(records, parts[1],
                                lower(parts[2]) = <<"d", "e", "s", "c">>))

\* The pagination with the two slices in the other order.
paginate_limit_first(records, offset, limit) ==
    LET cut == IF limit # None /\ limit[1] # 0 THEN Take(limit[1], records) ELSE records
    IN  IF offset # None /\ offset[1] # 0 THEN Drop(offset[1], cut) ELSE cut

\* if offset: records = records[offset:]; if limit: records = records[:limit]
paginate(records, offset, limit) ==
    LET dropped == IF offset # None /\ offset[1] # 0
                   THEN Drop(offset[1], records) ELSE records
    IN  IF limit # None /\ limit[1] # 0 THEN Take(limit[1], dropped) ELSE dropped

----------------------------------------------------------------------------
(* Query Processor: the matching of search_sheet *)

\* The haystack without the restriction to the listed fields.
search_text_all_fields(record, fields) ==
    join(<<" ">>, [i \in 1..Len(record) |-> lower(dict_values(record)[i])])

\* The haystack of one record.
search_text(record, fields) ==
    IF fields # None /\ fields[1] # <<>>
    THEN join(<<" ">>, [i \in 1..Len(fields[1]) |->
                            lower(dict_get(record, fields[1][i]))])
    ELSE join(<<" ">>, [i \in 1..Len(record) |-> lower(dict_values(record)[i])])

search_records(records, q, fields) ==
    LET Hit(record) == contains(search_text(record, fields), lower(q))
    IN  SelectSeq(records, Hit)

----------------------------------------------------------------------------
(* API Gateway *)

Forbidden == 403

NotFound == 404

OK == 200

\* APIKeyHeader(name="X-API-Key", auto_error=True): without the header (or
\* with an empty one) the request is refused before verify_api_key runs.
api_key_header(req) ==
    IF req.header = None \/ req.header[1] = <<>>
    THEN Raise(HTTPException(Forbidden, "Not authenticated"))
    ELSE Return(req.header)

\* verify_api_key over a header scheme that lets a missing header through as
\* None (auto_error=False).
verify_api_key_lenient(req, e) ==
    IF req.header # e.API_KEY
    THEN Raise(HTTPException(Forbidden, "Invalid API key"))
    ELSE Return(req.header)

\* verify_api_key, with its Security(api_key_header) dependency
verify_api_key(req, e) ==
    LET api_key == api_key_header(req)
    IN  IF ~api_key.ok THEN api_key
        ELSE IF api_key.val # e.API_KEY
        THEN Raise(HTTPException(Forbidden, "Invalid API key"))
        ELSE api_key

get_credentials(e) ==
    IF e.GOOGLE_CREDENTIALS_FILE = "unset"
    THEN Raise(HTTPException(InternalError, "Google credentials not configured"))
    ELSE IF e.GOOGLE_CREDENTIALS_FILE = "unreadable"
    THEN Raise(HTTPException(InternalError,
             "Failed to load credentials: " \o str_exc(OtherException("FileNotFoundError"))))
    ELSE Return("credentials")

\* get_sheet_service: its `except Exception` also catches the HTTPException
\* of get_credentials.
get_sheet_service(e, ext) ==
    LET credentials == get_credentials(e)
        failed(x) == Raise(HTTPException(InternalError,
                        "Failed to initialize Google Sheets service: " \o str_exc(x)))
    IN  IF ~credentials.ok THEN failed(credentials.exc)
        ELSE IF ext.authorize # "ok" THEN failed(OtherException("TransportError"))
        ELSE Return("client")

\* The worksheet-resolution block of both endpoints.
resolve_worksheet(req, ext) ==
    LET missing == Raise(HTTPException(NotFound,
                       "Worksheet '" \o text(fmt_str(req.worksheet))
                       \o "' not found in the sheet. Error: "
                       \o str_exc(OtherException("WorksheetNotFound"))))
    IN  IF req.worksheet = None
        THEN IF ext.worksheet = "raise" THEN missing
             ELSE IF ext.worksheet = "none"
             THEN Raise(HTTPException(NotFound, "No worksheets found in the spreadsheet"))
             ELSE Return(Worksheet(ext.values))
        ELSE IF ext.worksheet = "ok" THEN Return(Worksheet(ext.values))
             ELSE missing

\* json.dumps({}, sort_keys=True)
filters_json == <<"{", "}">>

\* The parameters that decide the answer of get_sheet_data.
Params(req) == <<req.sheet_id, req.worksheet, req.limit, req.offset, req.sort>>

cache_key(req) ==
    req.sheet_id \o <<":">> \o fmt_str(req.worksheet) \o <<":">>
    \o fmt_int(req.limit) \o <<":">> \o fmt_int(req.offset) \o <<":">>
    \o fmt_str(req.sort) \o <<":">> \o filters_json

\* What one run of a handler did: its return value or exception (out), the
\* cache it leaves, the calls it made in order (trace), the first
\* HTTPException raised on the way (inner), and on a cache hit the parameters
\* of the request whose answer was served (served).
Outcome(out, c, trace, inner, served) ==
    [out |-> out, cache |-> c, trace |-> trace, inner |-> inner, served |-> served]

\* GET /api/v1/sheets/{sheet_id}.  `ext` is what the spreadsheet service does
\* during this request.
get_sheet_data(req, e, c, t, ext) ==
    LET api_key   == verify_api_key(req, e)
        key       == cache_key(req)
        T1        == <<"cache_lookup", "get_sheet_service">>
        T2        == T1 \o <<"open_by_key">>
        T3        == T2 \o <<"worksheet">>
        T4        == T3 \o <<"get_all_values">>
        service   == get_sheet_service(e, ext)
        worksheet_obj == resolve_worksheet(req, ext)
        records   == clean_worksheet_data(worksheet_obj.val)
        ordered   == apply_sort(records.val, req.sort)
        page      == paginate(ordered.val, req.offset, req.limit)
        no_sheet  == HTTPException(NotFound,
            "Sheet not found. Please check if the sheet_id is correct and the service account has access to it. Error: "
            \o str_exc(OtherException("SpreadsheetNotFound")))
        unread    == HTTPException(InternalError,
            "Error reading records from worksheet: " \o str_exc(records.exc))
        unexpected == HTTPException(InternalError,
            "Unexpected error: " \o str_exc(ordered.exc))
    IN  IF ~api_key.ok THEN Outcome(api_key, c, <<>>, Some(api_key.exc), None)
        ELSE IF cache_contains(c, key, t)
        THEN Outcome(Return([data |-> c[key].value]), c, <<"cache_lookup">>,
                     None, Some(c[key].by))
        ELSE IF ~service.ok
        THEN Outcome(service, c, T1,
                     Some(IF get_credentials(e).ok THEN service.exc
                          ELSE get_credentials(e).exc), None)
        ELSE IF ext.open # "ok"
        THEN Outcome(Raise(no_sheet), c, T2, Some(no_sheet), None)
        ELSE IF ~worksheet_obj.ok
        THEN Outcome(worksheet_obj, c, T3, Some(worksheet_obj.exc), None)
        ELSE IF ~records.ok
        THEN Outcome(Raise(unread), c, T4, Some(records.exc), None)
        ELSE IF records.val = <<>>
        THEN Outcome(Return([data |-> <<>>,
                             message |-> "The sheet exists but contains no valid data or headers"]),
                     c, T4, None, None)
        ELSE IF ~ordered.ok
        THEN Outcome(Raise(unexpected), c, T4, Some(unexpected), None)
        ELSE Outcome(Return([data |-> page]),
                     cache_set(c, key, page, t, Params(req)),
                     T4 \o <<"cache_write">>, None, None)

\* GET /api/v1/sheets/{sheet_id}/search.  open_by_key has no try of its own
\* here: its failure reaches the outer `except Exception`.
search_sheet(req, e, c, t, ext) ==
    LET api_key   == verify_api_key(req, e)
        T1        == <<"get_sheet_service">>
        T2        == T1 \o <<"open_by_key">>
        T3        == T2 \o <<"worksheet">>
        T4        == T3 \o <<"get_all_values">>
        service   == get_sheet_service(e, ext)
        worksheet_obj == resolve_worksheet(req, ext)
        records   == clean_worksheet_data(worksheet_obj.val)
        failed    == HTTPException(InternalError,
            "Error searching sheet: " \o str_exc(OtherException("SpreadsheetNotFound")))
    IN  IF ~api_key.ok THEN Outcome(api_key, c, <<>>, Some(api_key.exc), None)
        ELSE IF ~service.ok
        THEN Outcome(service, c, T1,
                     Some(IF get_credentials(e).ok THEN service.exc
                          ELSE get_credentials(e).exc), None)
        ELSE IF ext.open # "ok"
        THEN Outcome(Raise(failed), c, T2, Some(failed), None)
        ELSE IF ~worksheet_obj.ok
        THEN Outcome(worksheet_obj, c, T3, Some(worksheet_obj.exc), None)
        ELSE IF ~records.ok
        THEN Outcome(records, c, T4, Some(records.exc), None)
        ELSE Outcome(Return([data |-> search_records(records.val, req.q, req.fields)]),
                     c, T4, None, None)

\* GET /health
health_check == Return([status |-> "healthy", version |-> "1.0.0"])

\* response_model=SheetData: the body keeps the fields SheetData declares.
SheetData(d) == [data |-> d.data]

\* What the client receives for a handler's return value or exception.
http_response(req, out) ==
    IF ~out.ok
    THEN IF out.exc.cls = "HTTPException"
         THEN [status |-> out.exc.status_code, body |-> [detail |-> out.exc.detail]]
         ELSE [status |-> InternalError, body |-> [detail |-> "Internal Server Error"]]
    ELSE [status |-> OK,
          body   |-> IF req.ep = "health" THEN out.val ELSE SheetData(out.val)]

\* The handler of a data endpoint.
handle(req, e, c, t, ext) ==
    IF req.ep = "sheet" THEN get_sheet_data(req, e, c, t, ext)
    ELSE search_sheet(req, e, c, t, ext)

----------------------------------------------------------------------------
(* The inputs of the specifications of one function *)

MaxCols == 3

MaxDataRows == 2

\* All sequences over S of length at most n.
SeqsUpTo(S, n) == UNION {[1..k -> S] : k \in 0..n}

\* Header cells: empty, blank, plain, to be stripped (and then a duplicate).
HeaderCells == {<<>>, <<" ">>, <<"a">>, <<" ", "a", "\t">>, <<"b">>}

\* The cell at data row r, column c: every cell of a grid is a different text.
Cell(r, c) == int_str(r) \o <<".">> \o int_str(c)

DataRow(r, len) == [c \in 1..len |-> Cell(r, c)]

\* Ragged grids: a header row and up to MaxDataRows rows of any length.
Grids ==
    {<<>>} \cup
    { <<h>> \o [r \in 1..Len(lens) |-> DataRow(r, lens[r])] :
        h \in SeqsUpTo(HeaderCells, MaxCols),
        lens \in SeqsUpTo(0..MaxCols, MaxDataRows) }

IOError == OtherException("APIError")

\* The configured API key, and a key that is not it.
TheKey == <<"k", "1">>

WrongKey == <<"k", "2">>

\* A request: the endpoint (ep), the X-API-Key header and the parameters.
Request(ep, header, sheet_id, worksheet, limit, offset, sort, q, fields) ==
    [ep |-> ep, header |-> header, sheet_id |-> sheet_id, worksheet |-> worksheet,
     limit |-> limit, offset |-> offset, sort |-> sort, q |-> q, fields |-> fields]

\* What the spreadsheet service does during one request: authorize and
\* open_by_key succeed ("ok") or raise; the worksheet lookup succeeds, raises
\* or (get_worksheet(0)) returns None ("none"); get_all_values returns a grid
\* or raises.
External(authorize, open, worksheet, values) ==
    [authorize |-> authorize, open |-> open, worksheet |-> worksheet, values |-> values]

Serves(grid) == External("ok", "ok", "ok", Return(grid))

InitIdle ==
    /\ now = 0 /\ cache = <<>> /\ pending = {} /\ busy = None
    /\ resp = None /\ prev = None
    /\ env = [API_KEY |-> Some(TheKey), GOOGLE_CREDENTIALS_FILE |-> "ok"]

InitNorm ==
    /\ InitIdle
    /\ arg \in {Worksheet(Return(g)) : g \in Grids} \cup {Worksheet(Raise(IOError))}
    /\ ret = None
    /\ pc = "call"

\* One call of clean_worksheet_data on a worksheet object.
Normalize ==
    /\ pc = "call"
    /\ ret' = [given |-> arg, result |-> clean_worksheet_data(arg)]
    /\ arg' = IF arg.values.ok
              THEN Worksheet(Return(all_values_after(arg.values.val)))
              ELSE arg
    /\ pc' = "done"
    /\ UNCHANGED <<now, cache, pending, busy, resp, prev, env>>

SpecNorm == InitNorm /\ [][Normalize]_vars

----------------------------------------------------------------------------
(* One call of get_sheet_data on a cold cache: sort and pagination *)

MaxRecs == 3

MaxOffset == 3

MaxLimit == 2

\* Values of the sorted column: "" < "B" < "a" < "ab" by code point.
SortValues == {<<>>, <<"B">>, <<"a">>, <<"a", "b">>}

\* A grid with the columns k and id; id numbers the rows.
SortGrid(vals) ==
    << << <<"k">>, <<"i", "d">> >> >>
    \o [r \in 1..Len(vals) |-> <<vals[r], int_str(r)>>]

SortGrids == {SortGrid(vals) : vals \in SeqsUpTo(SortValues, MaxRecs) \ {<<>>}}

SortSpecs ==
    { None, Some(<<>>), Some(<<"k">>), Some(<<"k", ":", "d", "e", "s", "c">>),
      Some(<<"k", ":", "D", "e", "S", "C">>), Some(<<"k", ":", "u", "p">>),
      Some(<<"k", ":">>), Some(<<"z", ":", "d", "e", "s", "c">>),
      Some(<<"k", ":", "d", "e", "s", "c", ":", "x">>) }

OptionalInts(lo, hi) == {None} \cup {Some(n) : n \in lo..hi}

InitQuery ==
    /\ InitIdle
    /\ arg \in { [req |-> Request("sheet", Some(TheKey), <<"s">>, None, lim, off, srt,
                                  <<>>, None),
                  ext |-> Serves(g)] :
                 g \in SortGrids, srt \in SortSpecs,
                 off \in OptionalInts(0, MaxOffset), lim \in OptionalInts(1, MaxLimit) }
    /\ ret = None
    /\ pc = "call"

\* One request handled from arrival to response, the fetch included.
CallHandler ==
    /\ pc = "call"
    /\ LET done == handle(arg.req, env, cache, now, arg.ext)
       IN  /\ ret' = [done |-> done, wire |-> http_response(arg.req, done.out)]
           /\ cache' = done.cache
    /\ pc' = "done"
    /\ UNCHANGED <<now, pending, busy, resp, prev, env, arg>>

SpecQuery == InitQuery /\ [][CallHandler]_vars

----------------------------------------------------------------------------
(* One call of search_sheet *)

MaxSearchRows == 2

Names == {<<"A", "l">>, <<"b", "o", "b">>}

Cities == {<<"L", "A">>, <<"R", "i", "o">>}

SearchGrid(rows) == << << <<"n", "a", "m", "e">>, <<"c", "i", "t", "y">> >> >> \o rows

SearchGrids ==
    {SearchGrid(rows) :
        rows \in SeqsUpTo({<<n, c>> : n \in Names, c \in Cities}, MaxSearchRows)}

\* Queries: in the name only, in the city only, in both, of another case,
\* across the joining space, in neither, empty.
Queries ==
    { <<"a", "l">>, <<"L", "a">>, <<"O">>, <<"B", " ", "R">>, <<"l", " ", "l">>,
      <<"z">>, <<>> }

FieldLists ==
    { None, Some(<< <<"n", "a", "m", "e">> >>),
      Some(<< <<"c", "i", "t", "y">>, <<"n", "a", "m", "e">> >>),
      Some(<< <<"z", "i", "p">>, <<"n", "a", "m", "e">> >>) }

InitSearch ==
    /\ InitIdle
    /\ arg \in { [req |-> Request("search", Some(TheKey), <<"s">>, None, None, None,
                                  None, q, f),
                  ext |-> Serves(g)] :
                 g \in SearchGrids, q \in Queries, f \in FieldLists }
    /\ ret = None
    /\ pc = "call"

SpecSearch == InitSearch /\ [][CallHandler]_vars

----------------------------------------------------------------------------
(* The gateway: requests on the one event loop of uvicorn.run(app) *)

MaxPending == 1

MaxTicks == 2

\* The clock moves in steps of half a TTL.
TickLen == ttl \div 2

\* No X-API-Key header, an empty one, the configured key, another key.
Headers == {None, Some(<<>>), Some(TheKey), Some(WrongKey)}

\* Worksheet absent, and a worksheet named "None".
WorksheetParams == {None, Some(<<"N", "o", "n", "e">>)}

SheetRequests ==
    {Request("sheet", h, <<"s">>, w, None, None, None, <<>>, None) :
        h \in Headers, w \in WorksheetParams}

SearchRequests ==
    {Request("search", h, <<"s">>, None, None, None, None, <<"a">>, None) :
        h \in Headers}

HealthRequest == Request("health", None, <<>>, None, None, None, None, <<>>, None)

Requests == SheetRequests \cup SearchRequests \cup {HealthRequest}

\* The grids the spreadsheet may hold at the time of a fetch.
LiveGrids ==
    { <<>>, << <<<<"k">>>> >>,
      << <<<<"k">>>>, <<<<"a">>>> >>, << <<<<"k">>>>, <<<<"b">>>> >> }

\* What the spreadsheet service may do during the fetch of req.
Externals(req) ==
    { External("raise", "ok", "ok", Return(<<>>)),
      External("ok", "raise", "ok", Return(<<>>)),
      External("ok", "ok", "raise", Return(<<>>)),
      External("ok", "ok", "ok", Raise(IOError)) }
    \cup {External("ok", "ok", "none", Return(<<>>)) : w \in {req.worksheet} \cap {None}}
    \cup {Serves(g) : g \in LiveGrids}

\* Stands for the service in a run that never calls it.
NoExternal == External("raise", "raise", "raise", Raise(IOError))

Init ==
    /\ now = 0 /\ cache = <<>> /\ pending = {} /\ busy = None
    /\ resp = None /\ prev = None
    /\ env \in [API_KEY : {None, Some(TheKey)},
                GOOGLE_CREDENTIALS_FILE : {"unset", "unreadable", "ok"}]
    /\ arg = None /\ ret = None /\ pc = "idle"

\* The handler of req gets as far as the spreadsheet service: the key is
\* right, get_sheet_data finds no cache entry, the credentials load.
NeedsFetch(req) ==
    /\ verify_api_key(req, env).ok
    /\ req.ep = "sheet" => ~cache_contains(cache, cache_key(req), now)
    /\ get_credentials(env).ok

\* The last fetched answer to the same parameters, if there is one: its data,
\* and whether it was sent less than a TTL ago (fresh).
Follows(req) ==
    IF req.ep = "sheet" /\ prev # None /\ prev[1].params = Params(req)
    THEN Some([data |-> prev[1].data, fresh |-> now < prev[1].done + ttl])
    ELSE None

\* The response of a finished handler run, with what the run did.
Sent(req, done, follows, ext) ==
    Some([req |-> req, wire |-> http_response(req, done.out), trace |-> done.trace,
          inner |-> done.inner, served |-> done.served, follows |-> follows,
          ext |-> ext])

\* The last answer of get_sheet_data that came from a fetch.
Remember(req, done) ==
    IF /\ req.ep = "sheet" /\ done.out.ok
       /\ \E i \in 1..Len(done.trace) : done.trace[i] = "get_all_values"
    THEN Some([params |-> Params(req), done |-> now,
               data |-> SheetData(done.out.val).data])
    ELSE prev

\* A request reaches the server.
Arrive(req) ==
    /\ Cardinality(pending) < MaxPending
    /\ req \notin pending
    /\ pending' = pending \cup {req}
    /\ resp' = None
    /\ UNCHANGED <<now, cache, busy, prev, env, arg, ret, pc>>

\* Time passes.
Tick ==
    /\ now < MaxTicks * TickLen
    /\ now' = now + TickLen
    /\ resp' = None
    /\ UNCHANGED <<cache, pending, busy, prev, env, arg, ret, pc>>

\* The loop is not inside a handler.
LoopFree == busy = None

\* The event loop runs health_check.
Health(req) ==
    /\ req \in pending /\ req.ep = "health"
    /\ LoopFree
    /\ pending' = pending \ {req}
    /\ resp' = Sent(req, Outcome(health_check, cache, <<>>, None, None), None, None)
    /\ UNCHANGED <<now, cache, busy, prev, env, arg, ret, pc>>

\* The event loop runs a data handler that ends without the spreadsheet
\* service: a refused key, a cache hit, credentials that do not load.
Serve(req) ==
    /\ req \in pending /\ req.ep # "health"
    /\ LoopFree
    /\ ~NeedsFetch(req)
    /\ LET done == handle(req, env, cache, now, NoExternal)
       IN  /\ cache' = done.cache
           /\ resp' = Sent(req, done, Follows(req), None)
    /\ pending' = pending \ {req}
    /\ UNCHANGED <<now, busy, prev, env, arg, ret, pc>>

\* The event loop runs a data handler up to its first call of the spreadsheet
\* service.  The calls are synchronous inside an async def: the loop stays in
\* this handler until they return.
StartFetch(req) ==
    /\ req \in pending /\ req.ep # "health"
    /\ LoopFree
    /\ NeedsFetch(req)
    /\ busy' = Some([req |-> req, follows |-> Follows(req)])
    /\ pending' = pending \ {req}
    /\ resp' = None
    /\ UNCHANGED <<now, cache, prev, env, arg, ret, pc>>

\* The spreadsheet service answers; the handler runs to its end.
FinishFetch(ext) ==
    /\ busy # None
    /\ ext \in Externals(busy[1].req)
    /\ LET req  == busy[1].req
           done == handle(req, env, cache, now, ext)
       IN  /\ cache' = done.cache
           /\ resp' = Sent(req, done, busy[1].follows, Some(ext))
           /\ prev' = Remember(req, done)
    /\ busy' = None
    /\ UNCHANGED <<now, pending, env, arg, ret, pc>>

Next ==
    \/ \E req \in Requests : Arrive(req)
    \/ Tick
    \/ \E req \in Requests : Health(req)
    \/ \E req \in Requests : Serve(req)
    \/ \E req \in Requests : StartFetch(req)
    \/ \E ext \in Externals(HealthRequest) : FinishFetch(ext)

Spec == Init /\ [][Next]_vars

----------------------------------------------------------------------------
(* Claims about the gateway *)

Answered == resp # None

\* The calls of a handler run that go to the spreadsheet service.
ExternalCalls(trace) ==
    {trace[i] : i \in 1..Len(trace)} \ {"cache_lookup", "cache_write"}

\* The X-API-Key header is absent or is not the configured API_KEY.
BadKey(req) == req.header = None \/ req.header # env.API_KEY

\* C1: a get_sheet_data request with the parameters of an earlier successful,
\* fetched answer, looked up less than 300 s after that answer was sent,
\* returns the same data without any call of the spreadsheet service (also
\* when the earlier record list was empty); once the TTL has passed it
\* fetches again.
C1_RepeatWithinTTLServedFromCache ==
    (Answered /\ resp[1].follows # None /\ ~BadKey(resp[1].req)) =>
        IF resp[1].follows[1].fresh
        THEN /\ resp[1].wire.status = OK
             /\ resp[1].wire.body.data = resp[1].follows[1].data
             /\ ExternalCalls(resp[1].trace) = {}
        ELSE "get_sheet_service" \in ExternalCalls(resp[1].trace)

\* C2: on both data endpoints a request whose X-API-Key is absent or wrong is
\* answered 403 before any cache lookup, cache write or spreadsheet call is
\* made for it, and it receives no data, cached or not.
C2_BadKeyRefusedBeforeAnyWork ==
    /\ (Answered /\ resp[1].req.ep # "health" /\ BadKey(resp[1].req)) =>
          /\ resp[1].wire.status = Forbidden
          /\ DOMAIN resp[1].wire.body = {"detail"}
          /\ resp[1].trace = <<>>
          /\ resp[1].served = None
          /\ resp[1].ext = None
    /\ busy # None => ~BadKey(busy[1].req)

\* A request with a wrong key is refused while the cache holds a live entry
\* for its very parameters.
C2_Witness ==
    /\ Answered
    /\ resp[1].req.ep = "sheet"
    /\ resp[1].req.header = Some(WrongKey)
    /\ resp[1].wire.status = Forbidden
    /\ cache_contains(cache, cache_key(resp[1].req), now)
    /\ cache[cache_key(resp[1].req)].by = Params(resp[1].req)

\* C3: on both data endpoints, with credentials that load, a failing
\* open_by_key gives 404 with a detail, a missing worksheet or a spreadsheet
\* without worksheets gives 404, and 500 is kept for credential failures and
\* other unexpected failures.
C3_FailureMapping ==
    (Answered /\ resp[1].req.ep # "health" /\ ~BadKey(resp[1].req)) =>
        LET ext    == resp[1].ext
            status == resp[1].wire.status
        IN  /\ (ext # None /\ ext[1].authorize = "ok" /\ ext[1].open = "raise")
                 => status = NotFound /\ "detail" \in DOMAIN resp[1].wire.body
            /\ ( /\ ext # None /\ ext[1].authorize = "ok" /\ ext[1].open = "ok"
                 /\ ext[1].worksheet \in {"raise", "none"} )
                 => status = NotFound
            /\ status = InternalError
                 => \/ ~get_credentials(env).ok
                    \/ ext # None /\ ext[1].authorize = "raise"
                    \/ ext # None /\ ~ext[1].values.ok

\* C4: an HTTPException raised by an inner layer reaches the client with the
\* status code and the detail it was raised with.
C4_KnownErrorsReachBoundaryUnchanged ==
    (Answered /\ resp[1].inner # None) =>
        /\ resp[1].wire.status = resp[1].inner[1].status_code
        /\ resp[1].wire.body.detail = resp[1].inner[1].detail

\* C8: when get_sheet_data resolves a worksheet whose normalised record list
\* is empty, the client receives 200 with "data": [] and the "message".
C8_EmptySheetMessageDelivered ==
    ( /\ Answered /\ resp[1].req.ep = "sheet" /\ resp[1].ext # None
      /\ resp[1].ext[1] \in {Serves(g) : g \in LiveGrids}
      /\ clean_worksheet_data(Worksheet(resp[1].ext[1].values)).val = <<>> )
    => /\ resp[1].wire.status = OK
       /\ resp[1].wire.body.data = <<>>
       /\ "message" \in DOMAIN resp[1].wire.body

\* The event loop can start the handler of req.
CanStart(req) == ENABLED (Health(req) \/ Serve(req) \/ StartFetch(req))

\* C9: while one request is in the spreadsheet fetch, every other request
\* that has arrived can be started.
C9_FetchDoesNotBlockOthers ==
    busy # None => \A req \in pending : CanStart(req)

\* C10: the cache key is injective over (sheet_id, worksheet, limit, offset,
\* sort): the key of a request differs from the key of every entry stored for
\* other parameters, and a cache hit serves only data that was computed for
\* the very parameters of the request.
C10_HitServesOwnParameters ==
    (Answered /\ resp[1].req.ep = "sheet" /\ ~BadKey(resp[1].req)) =>
        /\ \A k \in DOMAIN cache :
             cache[k].by # Params(resp[1].req) => k # cache_key(resp[1].req)
        /\ resp[1].served # None => resp[1].served[1] = Params(resp[1].req)

----------------------------------------------------------------------------
(* C5: the normalizer against its reference result *)

Range(f) == {f[i] : i \in DOMAIN f}

MinOf(S) == CHOOSE x \in S : \A y \in S : x <= y

MaxOf(S) == CHOOSE x \in S : \A y \in S : x >= y

\* s without its leading and trailing white space, by positions.
RefTrim(s) ==
    LET solid == {i \in 1..Len(s) : ~IsSpace(s[i])}
    IN  IF solid = {} THEN <<>> ELSE SubSeq(s, MinOf(solid), MaxOf(solid))

\* H: the stripped, non-empty cells of a header row, in order.
RECURSIVE RefHeaders(_)
RefHeaders(row0) ==
    IF row0 = <<>> THEN <<>>
    ELSE (IF RefTrim(row0[1]) = <<>> THEN <<>> ELSE <<RefTrim(row0[1])>>)
         \o RefHeaders(Tail(row0))

\* The cell of `row` at position i, the empty string beyond its end.
CellOrEmpty(row, i) == IF i <= Len(row) THEN row[i] ELSE <<>>

NormDone == pc = "done" /\ ret # None /\ ret.given.values.ok

\* What every version of the reference result shares: an empty result for an
\* empty grid or no headers, else one record per data row, in row order, with
\* the key set of H, and a grid left as it was.  The value claimed for key H[i]
\* is the cell at position i or, with lastWins, at the last position of H[i].
NormalizerMatches(lastWins) ==
    NormDone =>
        LET g   == ret.given.values.val
            out == ret.result
        IN  /\ out.ok
            /\ arg = ret.given
            /\ IF g = <<>> THEN out.val = <<>>
               ELSE LET H == RefHeaders(g[1])
                    IN  IF H = <<>> THEN out.val = <<>>
                        ELSE /\ Len(out.val) = Len(g) - 1
                             /\ \A r \in 1..(Len(g) - 1) :
                                  /\ Keys(out.val[r]) = Range(H)
                                  /\ Len(out.val[r]) = Cardinality(Range(H))
                                  /\ \A i \in 1..Len(H) :
                                       LET j == IF lastWins
                                                THEN MaxOf({k \in 1..Len(H) :
                                                              H[k] = H[i]})
                                                ELSE i
                                       IN  <<H[i], CellOrEmpty(g[r + 1], j)>>
                                               \in Range(out.val[r])

\* C5 as stated: in the record of data row r the value of H[i] is r[i] when
\* i < len(r) and "" otherwise, for every header position i.
C5_PositionalValues ==
    NormalizerMatches(FALSE)

\* C5 amended: the value of key H[i] is the cell at the LAST position j with
\* H[j] = H[i] (r[j] when j < len(r), "" otherwise); with headers that are
\* distinct after stripping that is r[i].  The rest of C5 stands: the empty
\* results, one record per data row in row order, the key set of H, and the
\* input grid's rows left unmodified.
C5_LastDuplicateWins ==
    NormalizerMatches(TRUE)

\* A normalised grid with a duplicated header, a row shorter than H and a
\* row longer than H.
C5_Witness ==
    /\ NormDone
    /\ ret.given.values.val # <<>>
    /\ LET g == ret.given.values.val
           H == RefHeaders(g[1])
       IN  /\ Len(ret.result.val) = 2
           /\ Cardinality(Range(H)) < Len(H)
           /\ \E r \in 2..Len(g) : Len(g[r]) < Len(H)
           /\ \E r \in 2..Len(g) : Len(g[r]) > Len(H)

----------------------------------------------------------------------------
(* C6: sort, then offset, then limit *)

\* a < b as strings: at the first difference the smaller code point, or a
\* proper prefix.
RefLess(a, b) ==
    \E k \in 0..Len(a) :
        /\ k <= Len(b)
        /\ \A i \in 1..k : a[i] = b[i]
        /\ \/ k = Len(a) /\ k < Len(b)
           \/ k < Len(a) /\ k < Len(b) /\ ord(a[k + 1]) < ord(b[k + 1])

\* The record's value of field f, the empty string when it has none.
RefValue(record, f) ==
    IF \E pair \in Range(record) : pair[1] = f
    THEN (CHOOSE pair \in Range(record) : pair[1] = f)[2]
    ELSE <<>>

Colons(s) == {i \in 1..Len(s) : s[i] = ":"}

\* "field" or "field:direction": at most one colon.
WellFormedSort(sort) == sort = None \/ Cardinality(Colons(sort[1])) <= 1

RefField(s) == IF Colons(s) = {} THEN s ELSE SubSeq(s, 1, MinOf(Colons(s)) - 1)

\* The direction is "desc" in any mix of cases.
RefDesc(s) ==
    /\ Colons(s) # {}
    /\ LET d == SubSeq(s, MinOf(Colons(s)) + 1, Len(s))
       IN  /\ Len(d) = 4
           /\ d[1] \in {"d", "D"} /\ d[2] \in {"e", "E"}
           /\ d[3] \in {"s", "S"} /\ d[4] \in {"c", "C"}

\* S is R in the order p, and p is the stable sort of R by field f.
StableOrder(R, p, f, desc) ==
    \A i, j \in 1..Len(R) :
        i < j =>
            LET a == RefValue(R[p[i]], f)
                b == RefValue(R[p[j]], f)
            IN  \/ IF desc THEN RefLess(b, a) ELSE RefLess(a, b)
                \/ a = b /\ p[i] < p[j]

\* Take(limit, Drop(offset, S)), by positions.
RefPage(S, offset, limit) ==
    LET off  == IF offset = None THEN 0 ELSE offset[1]
        left == IF off >= Len(S) THEN 0 ELSE Len(S) - off
        n    == IF limit # None /\ limit[1] < left THEN limit[1] ELSE left
    IN  [i \in 1..n |-> S[off + i]]

\* The normalised record list R of the call.
CallRecords == clean_worksheet_data(Worksheet(arg.ext.values)).val

QueryDone ==
    /\ pc = "done" /\ ret # None /\ arg.req.ep = "sheet"
    /\ WellFormedSort(arg.req.sort)
    /\ CallRecords # <<>>

\* The whole sorted list the handler computes for `sort` on a cold cache.
FullOrder(sort) ==
    handle([arg.req EXCEPT !.sort = sort, !.limit = None, !.offset = None],
           env, <<>>, now, arg.ext).out.val.data

\* C6: on a cache miss with a non-empty record list R and a sort spec "field"
\* or "field:direction", the data returned is Take(limit, Drop(offset, S)) with
\* S = R without a sort and otherwise the stable sort of R by the field's
\* string value (missing = ""), descending exactly for a direction that
\* lower-cases to "desc"; an offset beyond the length gives []; and without
\* ties the "desc" order is the reverse of the ascending order.
C6_SortThenPaginate ==
    QueryDone =>
        LET R    == CallRecords
            sort == arg.req.sort
            data == ret.wire.body.data
        IN  /\ ret.wire.status = OK
            /\ DOMAIN ret.wire.body = {"data"}
            /\ IF sort = None
               THEN data = RefPage(R, arg.req.offset, arg.req.limit)
               ELSE \E p \in Permutations(1..Len(R)) :
                      /\ StableOrder(R, p, RefField(sort[1]), RefDesc(sort[1]))
                      /\ data = RefPage([i \in 1..Len(R) |-> R[p[i]]],
                                        arg.req.offset, arg.req.limit)
            /\ (arg.req.offset # None /\ arg.req.offset[1] >= Len(R)) => data = <<>>
            /\ ( /\ sort # None
                 /\ RefDesc(sort[1])
                 /\ \A i, j \in 1..Len(R) :
                        i # j => RefValue(R[i], RefField(sort[1]))
                                    # RefValue(R[j], RefField(sort[1])) )
               => LET desc == FullOrder(sort)
                      asc  == FullOrder(Some(RefField(sort[1])))
                  IN  /\ Len(desc) = Len(R) /\ Len(asc) = Len(R)
                      /\ \A i \in 1..Len(R) : desc[i] = asc[Len(R) + 1 - i]

\* A descending sort with a tie, a skipped record and a cut: three records,
\* offset 1, limit 1.
C6_Witness ==
    /\ QueryDone
    /\ arg.req.sort # None /\ RefDesc(arg.req.sort[1]) /\ RefField(arg.req.sort[1]) = <<"k">>
    /\ Len(CallRecords) = 3
    /\ \E i, j \in 1..3 : i # j /\ RefValue(CallRecords[i], <<"k">>) = RefValue(CallRecords[j], <<"k">>)
    /\ arg.req.offset = Some(1) /\ arg.req.limit = Some(1)
    /\ Len(ret.wire.body.data) = 1
    /\ ret.wire.body.data[1] # CallRecords[2]

----------------------------------------------------------------------------
(* C7: the records search_sheet returns *)

Uppers == <<"A", "B", "C", "D", "E", "F", "G", "H", "I", "J", "K", "L", "M",
            "N", "O", "P", "Q", "R", "S", "T", "U", "V", "W", "X", "Y", "Z">>

Lowers == <<"a", "b", "c", "d", "e", "f", "g", "h", "i", "j", "k", "l", "m",
            "n", "o", "p", "q", "r", "s", "t", "u", "v", "w", "x", "y", "z">>

RefLower(s) ==
    [i \in 1..Len(s) |->
        IF \E k \in 1..Len(Uppers) : Uppers[k] = s[i]
        THEN Lowers[CHOOSE k \in 1..Len(Uppers) : Uppers[k] = s[i]]
        ELSE s[i]]

\* a occurs in b, whatever the case of either.
OccursIn(a, b) ==
    \E i \in 1..(Len(b) + 1) :
        /\ i + Len(a) - 1 <= Len(b)
        /\ SubSeq(RefLower(b), i, i + Len(a) - 1) = RefLower(a)

\* The values, each followed by a space, without the last space.
RECURSIVE Spaced(_)
Spaced(values) ==
    IF values = <<>> THEN <<>> ELSE values[1] \o <<" ">> \o Spaced(Tail(values))

RefHaystack(record, fields) ==
    LET values == IF fields = None
                  THEN [i \in 1..Len(record) |-> record[i][2]]
                  ELSE [i \in 1..Len(fields[1]) |-> RefValue(record, fields[1][i])]
    IN  IF values = <<>> THEN <<>>
        ELSE SubSeq(Spaced(values), 1, Len(Spaced(values)) - 1)

SearchDone == pc = "done" /\ ret # None /\ arg.req.ep = "search"

\* C7: search_sheet returns, in row order, exactly the records whose
\* lower-cased haystack (all values, or the values of the listed fields with
\* "" for a missing one, joined by spaces) holds the lower-cased query; so with
\* fields=[name] a record with q only outside name is left out, and without
\* fields a record with q in any one value is returned.
C7_SearchMatches ==
    SearchDone =>
        LET R      == CallRecords
            q      == arg.req.q
            fields == arg.req.fields
            data   == ret.wire.body.data
            hits   == {i \in 1..Len(R) : OccursIn(q, RefHaystack(R[i], fields))}
        IN  /\ ret.wire.status = OK
            /\ Len(data) = Cardinality(hits)
            /\ \A n \in 1..Len(data) :
                 data[n] = R[CHOOSE i \in hits :
                               Cardinality({m \in hits : m <= i}) = n]
            /\ \A i \in 1..Len(R) :
                 /\ ( /\ fields = Some(<< <<"n", "a", "m", "e">> >>)
                      /\ ~OccursIn(q, RefValue(R[i], <<"n", "a", "m", "e">>)) )
                    => R[i] \notin Range(data)
                 /\ ( /\ fields = None
                      /\ \E pair \in Range(R[i]) : OccursIn(q, pair[2]) )
                    => R[i] \in Range(data)

\* A search of the name field only, with the query in another case: one of
\* two records has it in its name; the other has it in its city alone and is
\* left out.
C7_Witness ==
    /\ SearchDone
    /\ arg.req.fields = Some(<< <<"n", "a", "m", "e">> >>)
    /\ arg.req.q = <<"O">>
    /\ Len(CallRecords) = 2
    /\ Len(ret.wire.body.data) = 1
    /\ \E i \in 1..2 :
         /\ CallRecords[i] \notin Range(ret.wire.body.data)
         /\ OccursIn(arg.req.q, RefValue(CallRecords[i], <<"c", "i", "t", "y">>))

=============================================================================
